---- MODULE Spec2Model ----
(***************************************************************************)
(* A model of the pub-sub broadcast channel of src/src/lib.rs.             *)
(*                                                                         *)
(* A channel is one Arc<Mutex<HashMap<Uuid, mpsc::Sender<T>>>> (the        *)
(* registry) shared by Sender and Receiver handles.  Every Receiver owns   *)
(* the consumer end of one std mpsc queue whose producer end is stored in  *)
(* the registry under the Receiver's id.                                   *)
(*                                                                         *)
(* Granularity.  Sender::send holds the mutex over its whole loop, while   *)
(* recv/try_recv touch only the Receiver's own queue without the mutex, so *)
(* send is split into call / lock / one step per loop iteration / return.  *)
(* The critical sections of Receiver::clone and Drop::drop consist of one  *)
(* map operation and are taken as one step each, preceded by a step in     *)
(* which the call has begun and waits for the mutex.  A Receiver is not    *)
(* Sync (it holds an mpsc::Receiver), so at most one operation is in       *)
(* progress on a Receiver at a time.  Every value sent is tagged with the  *)
(* index of its send call, which makes copies of different sends           *)
(* distinguishable.  T::clone returns normally in every specification but  *)
(* SpecPanic, where it may panic under the lock and poison the mutex.      *)
(***************************************************************************)
EXTENDS Integers, Sequences, FiniteSets, TLC

\* Bounds of the model.
MaxChans == 2      \* channels created by new(), the initial one included
MaxIds == 3        \* Receivers ever created (new() and clone), all channels
MaxSends == 2      \* send calls ever made
MaxSenders == 2    \* Sender handles alive at once on one channel

Chans == 1..MaxChans
Ids == 1..MaxIds
Msgs == 1..MaxSends

VARIABLES
    chans,      \* number of channels created so far
    registry,   \* registry[c]: the HashMap of channel c, id -> queue of the stored mpsc::Sender
    lock,       \* lock[c]: holder of the Mutex of channel c; 0 is free, v > 0 is send call v
    senderCount,\* senderCount[c]: Sender handles of channel c that exist
    original,   \* original[c]: the Sender that new() returned for channel c is one of them
    rcv,        \* rcv[i]: the Receiver with id i (st, pc, senders, receiver, parent, closed)
    queue,      \* queue[q]: pending values of mpsc channel q, oldest first
    rxAlive,    \* rxAlive[q]: the mpsc::Receiver (consumer end) of q exists
    sends,      \* sends[v]: send call v: pc, the channel `via` whose Sender it is called on,
                \* the registry `chan` it locks, ids visited, result; history: snap, the
                \* keys of the registry when it took the lock
    got,        \* history: got[i] is what recv/try_recv have returned on Receiver i, in order
    order,      \* history: order[c] is the send calls of c in the order they took the lock
    createdAt,  \* history: number of send calls begun when Receiver i came to exist
    droppedAt,  \* history: number of send calls begun when the drop of Receiver i finished
    poisoned,   \* poisoned[c]: a thread has panicked while it held the Mutex of channel c
    panics      \* history: the operations that have panicked on lock().unwrap()

vars == <<chans, registry, lock, senderCount, original, rcv, queue, rxAlive, sends,
          got, order, createdAt, droppedAt, poisoned, panics>>

Never == MaxSends + 1

----------------------------------------------------------------------------
\* Helpers

NoReceiver == [st |-> "none", pc |-> "idle", senders |-> 0, receiver |-> 0,
               parent |-> 0, closed |-> FALSE]

NoSend == [pc |-> "none", via |-> 0, cl |-> FALSE, chan |-> 0, visited |-> {},
           snap |-> {}, res |-> "none"]

\* Keys of the HashMap of channel c.
Keys(c) == DOMAIN registry[c]

\* HashMap::insert: the new value replaces an entry of the same key.
MapInsert(m, k, x) == [j \in (DOMAIN m) \cup {k} |-> IF j = k THEN x ELSE m[j]]

\* Mutant: a removal that takes every entry up to the key with it.
MapRemoveUpTo(m, k) == [j \in (DOMAIN m) \ (0..k) |-> m[j]]

\* HashMap::remove: no entry of that key is a no-op.
MapRemove(m, k) == [j \in (DOMAIN m) \ {k} |-> m[j]]

\* Mutant: identifiers of dropped Receivers are handed out again.
NewV4Recycled ==
    CHOOSE i \in Ids :
        /\ rcv[i].st \in {"none", "dropped"}
        /\ \A j \in Ids : rcv[j].st \in {"none", "dropped"} => i <= j

\* uuid::Uuid::new_v4(): an identifier no Receiver has had.
UnusedIds == {i \in Ids : rcv[i].st = "none"}
NewV4 == CHOOSE i \in UnusedIds : \A j \in UnusedIds : i <= j

\* Number of send calls begun.
Called == Cardinality({v \in Msgs : sends[v].pc # "none"})

\* Some mpsc::Sender (producer end) of queue q exists: stored in a registry, or
\* the local `send` of a clone that has not registered yet.
TxAlive(q) ==
    \/ \E c \in Chans : \E k \in Keys(c) : registry[c][k] = q
    \/ \E i \in Ids : rcv[i].st = "cloning" /\ rcv[i].receiver = q

\* The Receiver exists as a value its owner can use.
Usable(i) == rcv[i].st = "live" /\ rcv[i].pc = "idle"

----------------------------------------------------------------------------
\* new()

Init ==
    /\ chans = 1
    /\ registry = [c \in Chans |-> IF c = 1 THEN (1 :> 1) ELSE << >>]
    /\ lock = [c \in Chans |-> 0]
    /\ senderCount = [c \in Chans |-> IF c = 1 THEN 1 ELSE 0]
    /\ original = [c \in Chans |-> c = 1]
    /\ rcv = [i \in Ids |-> IF i = 1
                THEN [st |-> "live", pc |-> "idle", senders |-> 1, receiver |-> 1,
                      parent |-> 0, closed |-> FALSE]
                ELSE NoReceiver]
    /\ queue = [q \in Ids |-> << >>]
    /\ rxAlive = [q \in Ids |-> q = 1]
    /\ sends = [v \in Msgs |-> NoSend]
    /\ got = [i \in Ids |-> << >>]
    /\ order = [c \in Chans |-> << >>]
    /\ createdAt = [i \in Ids |-> IF i = 1 THEN 0 ELSE Never]
    /\ droppedAt = [i \in Ids |-> Never]
    /\ poisoned = [c \in Chans |-> FALSE]
    /\ panics = {}

New ==
    /\ chans < MaxChans
    /\ UnusedIds # {}
    /\ LET c == chans + 1
           i == NewV4
       IN  /\ chans' = c
           /\ registry' = [registry EXCEPT ![c] = MapInsert(<< >>, i, i)]
           /\ senderCount' = [senderCount EXCEPT ![c] = 1]
           /\ original' = [original EXCEPT ![c] = TRUE]
           /\ rcv' = [rcv EXCEPT ![i] = [st |-> "live", pc |-> "idle", senders |-> c,
                                         receiver |-> i, parent |-> 0, closed |-> FALSE]]
           /\ rxAlive' = [rxAlive EXCEPT ![i] = TRUE]
           /\ createdAt' = [createdAt EXCEPT ![i] = Called]
    /\ UNCHANGED <<poisoned, panics, lock, queue, sends, got, order, droppedAt>>

----------------------------------------------------------------------------
\* Sender

\* Sender handles of channel c that were made by Sender::clone.
Clones(c) == senderCount[c] - (IF original[c] THEN 1 ELSE 0)

\* Send calls in progress on a handle of channel c; cl tells a clone from
\* the Sender new() returned.  send borrows its handle, which therefore
\* outlives the call.
Borrowed(c, cl) ==
    \E v \in Msgs : /\ sends[v].pc \in {"called", "locked"}
                    /\ sends[v].via = c
                    /\ sends[v].cl = cl

\* Mutant: the derived clone copies into a registry of its own.
ClonedRegistryOther(c) == (c % MaxChans) + 1

\* #[derive(Clone)] clones the field: Arc::clone, the same registry.
ClonedRegistry(c) == c

\* #[derive(Clone)] on Sender: one more handle, nothing else.
SenderClone(c) ==
    /\ c <= chans
    /\ senderCount[c] >= 1
    /\ senderCount[c] < MaxSenders
    /\ senderCount' = [senderCount EXCEPT ![c] = @ + 1]
    /\ UNCHANGED <<poisoned, panics, chans, registry, lock, original, rcv, queue, rxAlive, sends,
                   got, order, createdAt, droppedAt>>

\* A Sender handle goes out of scope (no Drop impl: the Arc count goes down):
\* the one new() returned, or a clone that no call has borrowed.
SenderDrop(c) ==
    /\ c <= chans
    /\ \/ /\ original[c]
          /\ ~Borrowed(c, FALSE)
          /\ original' = [original EXCEPT ![c] = FALSE]
       \/ /\ Clones(c) >= 1
          /\ Clones(c) > 1 \/ ~Borrowed(c, TRUE)
          /\ UNCHANGED original
    /\ senderCount' = [senderCount EXCEPT ![c] = @ - 1]
    /\ UNCHANGED <<poisoned, panics, chans, registry, lock, rcv, queue, rxAlive, sends,
                   got, order, createdAt, droppedAt>>

\* Mutant: one registry for the whole process.
SenderRegistryGlobal(c) == 1

\* The registry a Sender handle of channel c refers to (self.senders).
SenderRegistry(c) == c

\* mpsc::Sender::send: fails exactly when the consumer end is gone.
MpscSendOk(q) == rxAlive[q]

\* Mutant: the queue is a stack, the value goes to the front.
MpscPushFront(s, x) == <<x>> \o s

\* mpsc::Sender::send on a connected queue: the value goes to the back.
MpscPush(s, x) == Append(s, x)

\* Mutant: the loop stops after its first iteration.
RemainingFirstOnly(v) ==
    IF sends[v].visited # {} THEN {} ELSE Keys(sends[v].chan)

\* Ids the loop `for (_, sender) in senders.iter()` has still to visit.
Remaining(v) == Keys(sends[v].chan) \ sends[v].visited

\* A mutex that is only granted once every subscriber has drained its
\* queue, as a rendezvous channel would demand; unlike lib.rs:99.
LockWhenDrained(c) ==
    /\ lock[c] = 0
    /\ \A k \in Keys(c) : queue[registry[c][k]] = << >>

\* Mutant: the registry is used without its mutex.
LockIgnored(c) == TRUE

\* The mutex of a registry can be taken.
LockFree(c) == lock[c] = 0

\* The lock after send has returned: the guard `senders` is dropped.
Released(c) == [lock EXCEPT ![c] = 0]

\* Sender::send is called with the next value, on the Sender new() returned
\* or on a clone of it.
SendCall(c) ==
    /\ c <= chans
    /\ Called < MaxSends
    /\ \E cl \in BOOLEAN :
         /\ IF cl THEN Clones(c) >= 1 ELSE original[c]
         /\ sends' = [sends EXCEPT ![Called + 1] =
                [pc |-> "called", via |-> c, cl |-> cl,
                 chan |-> SenderRegistry(IF cl THEN ClonedRegistry(c) ELSE c),
                 visited |-> {}, snap |-> {}, res |-> "none"]]
    /\ UNCHANGED <<poisoned, panics, chans, registry, lock, senderCount, original, rcv, queue, rxAlive,
                   got, order, createdAt, droppedAt>>

\* let senders = self.senders.lock().unwrap();
SendLock(v) ==
    /\ sends[v].pc = "called"
    /\ LockFree(sends[v].chan)
    /\ ~poisoned[sends[v].chan]
    /\ lock' = [lock EXCEPT ![sends[v].chan] = v]
    /\ sends' = [sends EXCEPT ![v].pc = "locked", ![v].snap = Keys(sends[v].chan)]
    /\ order' = [order EXCEPT ![sends[v].chan] = Append(@, v)]
    /\ UNCHANGED <<poisoned, panics, chans, registry, senderCount, original, rcv, queue, rxAlive,
                   got, createdAt, droppedAt>>

\* One iteration of the loop: sender.send(it.clone()), Err returns at once.
\* HashMap iteration order is arbitrary.
SendPush(v) ==
    /\ sends[v].pc = "locked"
    /\ \E k \in Remaining(v) :
         LET c == sends[v].chan
             q == registry[c][k]
         IN  IF MpscSendOk(q)
             THEN /\ queue' = [queue EXCEPT ![q] = MpscPush(@, v)]
                  /\ sends' = [sends EXCEPT ![v].visited = @ \cup {k}]
                  /\ UNCHANGED lock
             ELSE /\ sends' = [sends EXCEPT ![v].visited = @ \cup {k},
                                            ![v].pc = "done", ![v].res = "Err",
                                            ![v].cl = FALSE]
                  /\ lock' = Released(c)
                  /\ UNCHANGED queue
    /\ UNCHANGED <<poisoned, panics, chans, registry, senderCount, original, rcv, rxAlive,
                   got, order, createdAt, droppedAt>>

\* Mutant: a send that found no subscriber reports a failure.
SendReturnNoSubscriber(v) ==
    /\ sends[v].pc = "locked"
    /\ Remaining(v) = {}
    /\ sends' = [sends EXCEPT ![v].pc = "done", ![v].cl = FALSE,
                    ![v].res = IF sends[v].snap = {} THEN "Err" ELSE "Ok"]
    /\ lock' = Released(sends[v].chan)
    /\ UNCHANGED <<poisoned, panics, chans, registry, senderCount, original, rcv,
                   queue, rxAlive, got, order, createdAt, droppedAt>>

\* The loop has visited every entry: Ok(()).  The borrow of the handle ends.
SendReturn(v) ==
    /\ sends[v].pc = "locked"
    /\ Remaining(v) = {}
    /\ sends' = [sends EXCEPT ![v].pc = "done", ![v].res = "Ok", ![v].cl = FALSE]
    /\ lock' = Released(sends[v].chan)
    /\ UNCHANGED <<poisoned, panics, chans, registry, senderCount, original, rcv, queue, rxAlive,
                   got, order, createdAt, droppedAt>>

----------------------------------------------------------------------------
\* Receiver

\* mpsc::Receiver::recv / try_recv on a non-empty queue: the oldest value.
MpscFront(s) == Head(s)
MpscRest(s) == Tail(s)

\* Mutant: drop does not deregister (no key is removed).
DropKeyNone(i) == 0

\* Mutant: a clone's drop removes the entry of the Receiver it was cloned from.
DropKeyParent(i) == IF rcv[i].parent # 0 THEN rcv[i].parent ELSE i

\* The key Drop::drop removes: self.id.
DropKey(i) == i

\* Mutant: the clone registers under the id of the Receiver it is cloned from.
CloneKeyParent(n) == rcv[n].parent

\* The key Receiver::clone inserts the new producer end under: the fresh id.
CloneKey(n) == n

\* Mutant: recv takes the registry mutex before it waits for a value.
RecvCallLocking(i) ==
    /\ Usable(i)
    /\ LockFree(rcv[i].senders)
    /\ lock' = [lock EXCEPT ![rcv[i].senders] = 0 - i]
    /\ rcv' = [rcv EXCEPT ![i].pc = "recv"]
    /\ UNCHANGED <<poisoned, panics, chans, registry, senderCount, original, queue, rxAlive, sends,
                   got, order, createdAt, droppedAt>>

\* Receiver::recv is called; the thread is in self.receiver.recv() from here on.
RecvCall(i) ==
    /\ Usable(i)
    /\ rcv' = [rcv EXCEPT ![i].pc = "recv"]
    /\ UNCHANGED <<poisoned, panics, chans, registry, lock, senderCount, original, queue, rxAlive, sends,
                   got, order, createdAt, droppedAt>>

\* self.receiver.recv() returns: a value is there, or the queue is empty and
\* no producer end is left.  Otherwise the thread stays blocked.
RecvReturn(i) ==
    /\ rcv[i].st = "live"
    /\ rcv[i].pc = "recv"
    /\ LET q == rcv[i].receiver
       IN  IF queue[q] # << >>
           THEN /\ queue' = [queue EXCEPT ![q] = MpscRest(@)]
                /\ got' = [got EXCEPT ![i] = Append(@, MpscFront(queue[q]))]
                /\ rcv' = [rcv EXCEPT ![i].pc = "idle"]
           ELSE /\ ~TxAlive(q)
                /\ rcv' = [rcv EXCEPT ![i].pc = "idle", ![i].closed = TRUE]
                /\ UNCHANGED <<poisoned, panics, queue, got>>
    /\ UNCHANGED <<poisoned, panics, chans, registry, lock, senderCount, original, rxAlive, sends,
                   order, createdAt, droppedAt>>

\* What self.receiver.try_recv() returns on Receiver i: Ok(value), or
\* Err(TryRecvError::Empty), or Err(TryRecvError::Disconnected).
TryRecvResult(i) ==
    IF queue[rcv[i].receiver] # << >> THEN "Ok"
    ELSE IF TxAlive(rcv[i].receiver) THEN "Empty"
    ELSE "Disconnected"

\* Mutant: try_recv goes through the registry mutex and waits for it.
TryRecvLocking(i) ==
    /\ Usable(i)
    /\ LockFree(rcv[i].senders)
    /\ LET q == rcv[i].receiver
       IN  IF queue[q] # << >>
           THEN /\ queue' = [queue EXCEPT ![q] = Tail(@)]
                /\ got' = [got EXCEPT ![i] = Append(@, Head(queue[q]))]
           ELSE UNCHANGED <<poisoned, panics, queue, got>>
    /\ UNCHANGED <<poisoned, panics, chans, registry, lock, senderCount, original, rcv, rxAlive, sends,
                   order, createdAt, droppedAt>>

\* Receiver::try_recv: never waits.
TryRecv(i) ==
    /\ Usable(i)
    /\ LET q == rcv[i].receiver
       IN  IF queue[q] # << >>
           THEN /\ queue' = [queue EXCEPT ![q] = MpscRest(@)]
                /\ got' = [got EXCEPT ![i] = Append(@, MpscFront(queue[q]))]
                /\ UNCHANGED rcv
           ELSE /\ rcv' = [rcv EXCEPT ![i].closed =
                              @ \/ TryRecvResult(i) = "Disconnected"]
                /\ UNCHANGED <<poisoned, panics, queue, got>>
    /\ UNCHANGED <<poisoned, panics, chans, registry, lock, senderCount, original, rxAlive, sends,
                   order, createdAt, droppedAt>>

\* Mutant: the clone starts with a copy of what its original has pending.
MpscChannelCopied(i) == queue[rcv[i].receiver]

\* mpsc::channel() in the clone of Receiver i: a new queue, empty.
MpscChannel(i) == << >>

\* Receiver::clone, up to the lock: the id is minted and the queue created.
CloneCall(i) ==
    /\ Usable(i)
    /\ UnusedIds # {}
    /\ LET n == NewV4
       IN  /\ rcv' = [rcv EXCEPT ![i].pc = "clone",
                                 ![n] = [st |-> "cloning", pc |-> "idle",
                                         senders |-> rcv[i].senders, receiver |-> n,
                                         parent |-> i, closed |-> FALSE]]
           /\ rxAlive' = [rxAlive EXCEPT ![n] = TRUE]
           /\ queue' = [queue EXCEPT ![n] = MpscChannel(i)]
    /\ UNCHANGED <<poisoned, panics, chans, registry, lock, senderCount, original, sends,
                   got, order, createdAt, droppedAt>>

\* Receiver::clone, the rest: lock, insert, unlock, and the new Receiver is
\* returned.
CloneRegister(n) ==
    /\ rcv[n].st = "cloning"
    /\ LockFree(rcv[n].senders)
    /\ ~poisoned[rcv[n].senders]
    /\ registry' = [registry EXCEPT ![rcv[n].senders] =
                       MapInsert(@, CloneKey(n), rcv[n].receiver)]
    /\ rcv' = [rcv EXCEPT ![n].st = "live", ![rcv[n].parent].pc = "idle"]
    /\ createdAt' = [createdAt EXCEPT ![n] = Called]
    /\ UNCHANGED <<poisoned, panics, chans, lock, senderCount, original, queue, rxAlive, sends,
                   got, order, droppedAt>>

\* Mutant: the consumer end is destroyed before the entry is removed.
DropCallFieldsFirst(i) ==
    /\ Usable(i)
    /\ rcv' = [rcv EXCEPT ![i].st = "dropping"]
    /\ rxAlive' = [rxAlive EXCEPT ![rcv[i].receiver] = FALSE]
    /\ UNCHANGED <<poisoned, panics, chans, registry, lock, senderCount, original,
                   queue, sends, got, order, createdAt, droppedAt>>

\* The Receiver goes out of scope: Drop::drop is entered and waits for the lock.
DropCall(i) ==
    /\ Usable(i)
    /\ rcv' = [rcv EXCEPT ![i].st = "dropping"]
    /\ UNCHANGED <<poisoned, panics, chans, registry, lock, senderCount, original, queue, rxAlive, sends,
                   got, order, createdAt, droppedAt>>

\* Drop::drop: lock, senders.remove(&self.id), unlock.
DropRemove(i) ==
    /\ rcv[i].st = "dropping"
    /\ LockFree(rcv[i].senders)
    /\ ~poisoned[rcv[i].senders]
    /\ registry' = [registry EXCEPT ![rcv[i].senders] = MapRemove(@, DropKey(i))]
    /\ rcv' = [rcv EXCEPT ![i].st = "removed"]
    /\ UNCHANGED <<poisoned, panics, chans, lock, senderCount, original, queue, rxAlive, sends,
                   got, order, createdAt, droppedAt>>

\* After Drop::drop the fields are destroyed: the consumer end goes, and the
\* pending values with it.  The history of what the Receiver obtained ends
\* here too.
DropFields(i) ==
    /\ rcv[i].st = "removed"
    /\ rxAlive' = [rxAlive EXCEPT ![rcv[i].receiver] = FALSE]
    /\ queue' = [queue EXCEPT ![rcv[i].receiver] = << >>]
    /\ rcv' = [rcv EXCEPT ![i].st = "dropped"]
    /\ got' = [got EXCEPT ![i] = << >>]
    /\ droppedAt' = [droppedAt EXCEPT ![i] = Called]
    /\ UNCHANGED <<poisoned, panics, chans, registry, lock, senderCount, original, sends, order, createdAt>>

----------------------------------------------------------------------------
\* Panics.  T is any Clone type, and send runs T::clone while it holds the
\* guard (lib.rs:103).  A panic there unwinds through the guard, which marks
\* the Mutex poisoned; from then on lock() returns Err and unwrap() panics.

\* it.clone() panics in the loop of send v: the guard is dropped by the
\* unwinding, which poisons and unlocks the Mutex.
TClonePanics(v) ==
    /\ sends[v].pc = "locked"
    /\ Remaining(v) # {}
    /\ sends' = [sends EXCEPT ![v].pc = "done", ![v].res = "Unwound", ![v].cl = FALSE]
    /\ lock' = Released(sends[v].chan)
    /\ poisoned' = [poisoned EXCEPT ![sends[v].chan] = TRUE]
    /\ UNCHANGED <<panics, chans, registry, senderCount, original, rcv, queue,
                   rxAlive, got, order, createdAt, droppedAt>>

\* self.senders.lock().unwrap() in send, on a poisoned Mutex.
SendUnwrapPanics(v) ==
    /\ sends[v].pc = "called"
    /\ LockFree(sends[v].chan)
    /\ poisoned[sends[v].chan]
    /\ sends' = [sends EXCEPT ![v].pc = "done", ![v].res = "Panic", ![v].cl = FALSE]
    /\ panics' = panics \cup {"send"}
    /\ UNCHANGED <<poisoned, chans, registry, lock, senderCount, original, rcv,
                   queue, rxAlive, got, order, createdAt, droppedAt>>

\* self.senders.lock().unwrap() in Receiver::clone, on a poisoned Mutex: no
\* Receiver is returned, both ends of the new queue are dropped.
CloneUnwrapPanics(n) ==
    /\ rcv[n].st = "cloning"
    /\ LockFree(rcv[n].senders)
    /\ poisoned[rcv[n].senders]
    /\ rcv' = [rcv EXCEPT ![n].st = "dropped", ![rcv[n].parent].pc = "idle"]
    /\ rxAlive' = [rxAlive EXCEPT ![rcv[n].receiver] = FALSE]
    /\ panics' = panics \cup {"clone"}
    /\ UNCHANGED <<poisoned, chans, registry, lock, senderCount, original, queue,
                   sends, got, order, createdAt, droppedAt>>

\* self.senders.lock().unwrap() in Drop::drop, on a poisoned Mutex: drop is
\* left before remove, the entry stays, and the fields are destroyed next.
DropUnwrapPanics(i) ==
    /\ rcv[i].st = "dropping"
    /\ LockFree(rcv[i].senders)
    /\ poisoned[rcv[i].senders]
    /\ rcv' = [rcv EXCEPT ![i].st = "removed"]
    /\ panics' = panics \cup {"drop"}
    /\ UNCHANGED <<poisoned, chans, registry, lock, senderCount, original, queue,
                   rxAlive, sends, got, order, createdAt, droppedAt>>

----------------------------------------------------------------------------
\* One channel with its Sender handle, used from any number of threads.
Next ==
    \/ \E c \in Chans : SendCall(c)
    \/ \E v \in Msgs : SendLock(v) \/ SendPush(v) \/ SendReturn(v)
    \/ \E i \in Ids : RecvCall(i) \/ RecvReturn(i) \/ TryRecv(i)
    \/ \E i \in Ids : CloneCall(i) \/ CloneRegister(i)
    \/ \E i \in Ids : DropCall(i) \/ DropRemove(i) \/ DropFields(i)

Spec == Init /\ [][Next]_vars

\* The same, for a T whose Clone may panic.
NextPanic ==
    \/ Next
    \/ \E v \in Msgs : TClonePanics(v) \/ SendUnwrapPanics(v)
    \/ \E i \in Ids : CloneUnwrapPanics(i) \/ DropUnwrapPanics(i)

SpecPanic == Init /\ [][NextPanic]_vars

\* The same, with Sender handles cloned and dropped.
NextHandles ==
    \/ Next
    \/ \E c \in Chans : SenderClone(c) \/ SenderDrop(c)

SpecHandles == Init /\ [][NextHandles]_vars

\* The same, with further channels created by new().
NextChannels ==
    \/ Next
    \/ New

SpecChannels == Init /\ [][NextChannels]_vars

\* Publishers and subscriber threads that loop on recv (the shape of
\* tests::many_senders and of the crate example): no Receiver is dropped.
\* Threads are scheduled fairly: a call that can proceed eventually does.
NextFan ==
    \/ \E c \in Chans : SendCall(c)
    \/ \E v \in Msgs : SendLock(v) \/ SendPush(v) \/ SendReturn(v)
    \/ \E i \in Ids : RecvCall(i) \/ RecvReturn(i)
    \/ \E i \in Ids : CloneCall(i) \/ CloneRegister(i)

Fairness ==
    /\ \A c \in Chans : WF_vars(SendCall(c))
    /\ \A v \in Msgs : WF_vars(SendLock(v)) /\ WF_vars(SendPush(v)) /\ WF_vars(SendReturn(v))
    /\ \A i \in Ids : WF_vars(RecvCall(i)) /\ WF_vars(RecvReturn(i))
    /\ \A i \in Ids : WF_vars(CloneRegister(i))

SpecFan == Init /\ [][NextFan]_vars /\ Fairness

\* Any mix of calls on one channel in which the Receiver returned by new()
\* stays subscribed and never reads, while its clones read, poll, clone and
\* drop freely.  Only the calls that take the registry mutex are scheduled
\* fairly: a send, clone or drop that can take its next step eventually
\* does.  Nothing obliges any subscriber to read.
Readers == Ids \ {1}

NextLock ==
    \/ \E c \in Chans : SendCall(c)
    \/ \E v \in Msgs : SendLock(v) \/ SendPush(v) \/ SendReturn(v)
    \/ \E i \in Readers : RecvCall(i) \/ RecvReturn(i) \/ TryRecv(i)
    \/ \E i \in Ids : CloneCall(i) \/ CloneRegister(i)
    \/ \E i \in Readers : DropCall(i) \/ DropRemove(i) \/ DropFields(i)

LockFairness ==
    /\ \A v \in Msgs : WF_vars(SendLock(v)) /\ WF_vars(SendPush(v)) /\ WF_vars(SendReturn(v))
    /\ \A i \in Ids : WF_vars(CloneRegister(i))
    /\ \A i \in Readers : WF_vars(DropRemove(i)) /\ WF_vars(DropFields(i))

SpecLock == Init /\ [][NextLock]_vars /\ LockFairness

----------------------------------------------------------------------------
\* Vocabulary of the properties

\* The elements of a sequence.
Elems(s) == {s[k] : k \in 1..Len(s)}

\* How often x occurs in s.
Count(s, x) == Cardinality({k \in 1..Len(s) : s[k] = x})

\* Everything Receiver i has obtained or still has pending, oldest first.
Stream(i) ==
    IF rcv[i].st = "none" THEN << >> ELSE got[i] \o queue[rcv[i].receiver]

\* Receiver i is registered and intact: created, and its drop has not yet
\* deregistered it.
Live(i) == rcv[i].st \in {"live", "dropping"}

\* Position of x in s (0 when absent).
Pos(s, x) == IF x \in Elems(s) THEN CHOOSE k \in 1..Len(s) : s[k] = x ELSE 0

\* s lists some of the elements of t, each once, in the order of t.
InOrderOf(s, t) ==
    /\ \A a \in 1..Len(s) : Count(t, s[a]) = 1
    /\ \A a, b \in 1..Len(s) : a < b => Pos(t, s[a]) < Pos(t, s[b])

----------------------------------------------------------------------------
\* C1. Guaranteed delivery to earlier subscribers: when a send call has
\* returned, every Receiver of its channel that had come to exist before the
\* call began and has not been dropped holds exactly one copy of the value,
\* received already or pending in its queue.
C1_DeliveredToEarlier ==
    \A v \in Msgs : \A i \in Ids :
        (/\ sends[v].pc = "done"
         /\ rcv[i].senders = sends[v].chan
         /\ createdAt[i] < v
         /\ Live(i))
        => Count(Stream(i), v) = 1

\* C1 witness: a send has returned and the original and a clone, both created
\* before the call, have both received its value through recv/try_recv.
C1_Witness ==
    \E v \in Msgs : \E i, j \in Ids :
        /\ i # j
        /\ sends[v].pc = "done"
        /\ Live(i) /\ Live(j)
        /\ createdAt[i] < v /\ createdAt[j] < v
        /\ v \in Elems(got[i]) /\ v \in Elems(got[j])

\* C2. FIFO per subscriber: what a Receiver has obtained from recv/try_recv,
\* followed by what is pending in its queue, is in the order in which the
\* send calls took the registry lock.
C2_Fifo ==
    \A i \in Ids : Live(i) => InOrderOf(Stream(i), order[rcv[i].senders])

\* C2 witness: a Receiver has obtained two values, in lock order, and the
\* lock order is not the order of the calls.
C2_Witness ==
    \E i \in Ids :
        /\ Live(i)
        /\ got[i] = <<2, 1>>
        /\ order[rcv[i].senders] = <<2, 1>>

\* C3. Post-drop exclusion: a send called after the drop of a Receiver had
\* finished never visits that Receiver's entry and leaves its queue empty;
\* when it has returned, it has returned Ok(()) and every Receiver of the
\* channel that existed before the call and is still live holds the value.
C3_PostDropExclusion ==
    \A v \in Msgs : \A i \in Ids :
        (/\ sends[v].pc # "none"
         /\ rcv[i].senders = sends[v].chan
         /\ droppedAt[i] < v)
        => /\ i \notin sends[v].visited
           /\ queue[rcv[i].receiver] = << >>
           /\ sends[v].pc = "done" =>
                /\ sends[v].res = "Ok"
                /\ \A j \in Ids :
                     (rcv[j].senders = sends[v].chan /\ createdAt[j] < v /\ Live(j))
                     => v \in Elems(Stream(j))

\* C3 witness: R2 was dropped before the call of a send that has returned,
\* and R1 has received the value of that send.
C3_Witness ==
    \E v \in Msgs : \E i, j \in Ids :
        /\ sends[v].pc = "done"
        /\ droppedAt[i] < v
        /\ rcv[i].senders = sends[v].chan /\ rcv[j].senders = sends[v].chan
        /\ Live(j)
        /\ v \in Elems(got[j])

\* C5. Registry invariant: the keys of a channel's registry are exactly the
\* ids of its live Receivers (created, and not yet deregistered by their
\* drop), and the entry of each holds the producer end of its own queue.
C5_RegistryInvariant ==
    \A c \in Chans :
        /\ Keys(c) = {i \in Ids : Live(i) /\ rcv[i].senders = c}
        /\ \A k \in Keys(c) : registry[c][k] = rcv[k].receiver

\* C5 witness: the original Receiver has been dropped, a clone of it is
\* live, and a further clone is being created and not yet registered.
C5_Witness ==
    \E i, j, n \in Ids :
        /\ rcv[i].st = "dropped"
        /\ rcv[j].st = "live"
        /\ rcv[n].st = "cloning"
        /\ Keys(rcv[j].senders) = {j}

\* C6. Snapshot broadcast: while a send holds the lock the keys of the
\* registry are those it found when it took the lock, and each queue holds
\* one copy of the value if its entry has been visited and none otherwise;
\* when the send has returned Ok(()) it has visited exactly the snapshot, so
\* every subscriber of the snapshot that still exists holds exactly one copy
\* and every other Receiver none.
C6_SnapshotBroadcast ==
    \A v \in Msgs :
        /\ sends[v].pc = "locked" =>
             /\ Keys(sends[v].chan) = sends[v].snap
             /\ sends[v].visited \subseteq sends[v].snap
             /\ \A i \in Ids :
                  Count(Stream(i), v) = IF i \in sends[v].visited THEN 1 ELSE 0
        /\ (sends[v].pc = "done" /\ sends[v].res = "Ok") =>
             /\ sends[v].visited = sends[v].snap
             /\ \A i \in Ids :
                  Count(Stream(i), v) =
                     IF i \in sends[v].snap /\ rcv[i].st # "dropped" THEN 1 ELSE 0

\* C6 witness: a send is between its first and its last push while a clone
\* and a drop of the same channel wait for the lock.
C6_Witness ==
    \E v \in Msgs : \E n, j \in Ids :
        /\ sends[v].pc = "locked"
        /\ sends[v].visited # {}
        /\ Remaining(v) # {}
        /\ rcv[n].st = "cloning" /\ rcv[n].senders = sends[v].chan
        /\ rcv[j].st = "dropping" /\ rcv[j].senders = sends[v].chan

\* C7. No cross-talk: a send locks and visits the registry of the channel
\* whose Sender it was called on, a Receiver holds only values sent on its
\* own channel, every entry of a registry belongs to a Receiver of that
\* channel, and a step of a send leaves every registry unchanged and changes
\* no queue of another channel.
C7_NoCrossTalk ==
    /\ [](/\ \A v \in Msgs : sends[v].pc # "none" =>
                /\ sends[v].chan = sends[v].via
                /\ \A k \in sends[v].visited : rcv[k].senders = sends[v].via
          /\ \A i \in Ids : \A v \in Elems(Stream(i)) :
                sends[v].via = rcv[i].senders
          /\ \A c \in Chans : \A k \in Keys(c) : rcv[k].senders = c)
    /\ [][\A v \in Msgs :
            sends'[v] # sends[v] =>
               /\ registry' = registry
               /\ \A i \in Ids :
                    (rcv[i].st # "none" /\ rcv[i].senders # sends'[v].via)
                    => queue'[rcv[i].receiver] = queue[rcv[i].receiver]]_vars

\* C7 witness: two channels exist, a send has returned on each, and a
\* Receiver of each has received the value sent on its own channel.
C7_Witness ==
    \E v, w \in Msgs : \E i, j \in Ids :
        /\ sends[v].via = 1 /\ sends[v].pc = "done"
        /\ sends[w].via = 2 /\ sends[w].pc = "done"
        /\ rcv[i].senders = 1 /\ got[i] = <<v>>
        /\ rcv[j].senders = 2 /\ got[j] = <<w>>

\* C8. A live Receiver never observes closure: no recv has returned RecvError
\* and no try_recv Disconnected, and the registry of a live Receiver holds
\* the producer end of its queue, whatever has become of the Sender handles.
C8_NeverClosed ==
    \A i \in Ids :
        /\ ~rcv[i].closed
        /\ Live(i) =>
             \E k \in Keys(rcv[i].senders) :
                 registry[rcv[i].senders][k] = rcv[i].receiver

\* C8 witness: every Sender handle of the channel has been dropped, and a
\* Receiver that received a value before waits in recv on its empty queue.
C8_Witness ==
    \E i \in Ids :
        /\ rcv[i].st = "live"
        /\ rcv[i].pc = "recv"
        /\ senderCount[rcv[i].senders] = 0
        /\ got[i] # << >>
        /\ queue[rcv[i].receiver] = << >>

\* C4. Fan-out count under concurrency: a Receiver never has more values
\* than sends were called nor any value twice, and when the publishers make
\* all their MaxSends calls and the subscriber threads loop on recv, the
\* count of every Receiver created before the first call settles at exactly
\* MaxSends.
C4_FanOutCount ==
    /\ [](\A i \in Ids :
            /\ Len(got[i]) <= Called
            /\ \A v \in Msgs : Count(got[i], v) <= 1)
    /\ <>[](\A i \in Ids : createdAt[i] = 0 => Len(got[i]) = MaxSends)

\* C4 witness: the original and two clones, all created before the first
\* call, have each received all MaxSends values of concurrent sends.
C4_Witness ==
    /\ \A i \in Ids : createdAt[i] = 0 /\ Len(got[i]) = MaxSends
    /\ \A v \in Msgs : sends[v].pc = "done"
    /\ order[1] # <<1, 2>>

\* C10. recv blocks until data is available and is then woken: a recv
\* returns only from a non-empty queue, with the oldest pending value, which
\* it removes; and a recv that waits while a send has been called on its
\* channel eventually returns.
C10_RecvBlocksThenWakes ==
    /\ [][\A i \in Ids :
            (rcv[i].pc = "recv" /\ rcv'[i].pc = "idle") =>
               /\ queue[rcv[i].receiver] # << >>
               /\ got'[i] = Append(got[i], Head(queue[rcv[i].receiver]))
               /\ queue'[rcv[i].receiver] = Tail(queue[rcv[i].receiver])]_vars
    /\ \A i \in Ids :
         (/\ rcv[i].st = "live"
          /\ rcv[i].pc = "recv"
          /\ \E v \in Msgs : sends[v].pc = "called" /\ sends[v].chan = rcv[i].senders)
         ~> (rcv[i].pc = "idle")

\* C10 witness: a recv waits on an empty queue while a send holds the
\* registry lock and has not yet pushed to that queue.
C10_Witness ==
    \E i \in Ids : \E v \in Msgs :
        /\ rcv[i].st = "live"
        /\ rcv[i].pc = "recv"
        /\ queue[rcv[i].receiver] = << >>
        /\ got[i] # << >>
        /\ sends[v].pc = "locked"
        /\ i \in Remaining(v)

\* C11. try_recv never blocks: on a Receiver its owner can use, try_recv can
\* always take its step, whoever holds the registry lock; it returns Ok
\* exactly when a value is pending and Empty exactly when none is; an Ok
\* step hands out the oldest pending value and removes it, and any other
\* step leaves the queues, what was obtained, the registry and the lock
\* unchanged.
C11_TryRecvNeverBlocks ==
    /\ [](\A i \in Ids : Usable(i) =>
            /\ ENABLED TryRecv(i)
            /\ TryRecvResult(i) = "Ok" <=> queue[rcv[i].receiver] # << >>
            /\ TryRecvResult(i) = "Empty" <=> queue[rcv[i].receiver] = << >>)
    /\ [][\A i \in Ids : TryRecv(i) =>
            /\ registry' = registry
            /\ lock' = lock
            /\ IF TryRecvResult(i) = "Ok"
               THEN /\ got'[i] = Append(got[i], Head(queue[rcv[i].receiver]))
                    /\ queue'[rcv[i].receiver] = Tail(queue[rcv[i].receiver])
               ELSE /\ queue' = queue
                    /\ got' = got]_vars

\* C11 witness: a Receiver that has obtained a value has nothing pending and
\* is free to call try_recv, which returns Empty, while a send holds the
\* registry lock and has still to push to that Receiver.
C11_Witness ==
    \E i \in Ids : \E v \in Msgs :
        /\ Usable(i)
        /\ got[i] # << >>
        /\ TryRecvResult(i) = "Empty"
        /\ sends[v].pc = "locked"
        /\ i \in Remaining(v)

\* C12. send, clone and drop never wait for data or for a reader: every
\* send that has been called returns, every clone that has been called
\* yields its Receiver and every drop that has been entered finishes,
\* whatever the subscribers do, also when none of them ever reads.
C12_LockCallsComplete ==
    /\ \A v \in Msgs : (sends[v].pc = "called") ~> (sends[v].pc = "done")
    /\ \A i \in Ids : (rcv[i].st = "cloning") ~> (rcv[i].st = "live")
    /\ \A i \in Ids : (rcv[i].st = "dropping") ~> (rcv[i].st = "dropped")

\* C12 witness: every send has returned although a subscriber has never read
\* and holds all MaxSends values in its queue, while a drop has finished and
\* a clone has been created after the last call.
C12_Witness ==
    \E i, j, n \in Ids :
        /\ \A v \in Msgs : sends[v].pc = "done"
        /\ Live(i) /\ got[i] = << >> /\ Len(queue[rcv[i].receiver]) = MaxSends
        /\ rcv[j].st = "dropped"
        /\ rcv[n].st = "live" /\ createdAt[n] = MaxSends

\* C13. Destruction touches only the Receiver's own entry: the step of a
\* drop that deregisters removes no key but the Receiver's own id and leaves
\* every other entry, every queue and every consumer end as they were; the
\* destruction of the fields that follows empties only the Receiver's own
\* queue and changes no registry; and removing an id that a registry does
\* not hold leaves that registry unchanged.
C13_DropOwnEntryOnly ==
    /\ [](\A c \in Chans : \A k \in Ids \ Keys(c) :
            MapRemove(registry[c], k) = registry[c])
    /\ [][\A i \in Ids :
            /\ DropRemove(i) =>
                 /\ \A c \in Chans : \A k \in Keys(c) :
                        (c # rcv[i].senders \/ k # i) =>
                            /\ k \in DOMAIN registry'[c]
                            /\ registry'[c][k] = registry[c][k]
                 /\ \A c \in Chans : DOMAIN registry'[c] \subseteq Keys(c)
                 /\ i \notin DOMAIN registry'[rcv[i].senders]
                 /\ queue' = queue
                 /\ rxAlive' = rxAlive
            /\ DropFields(i) =>
                 /\ registry' = registry
                 /\ \A q \in DOMAIN queue :
                        q # rcv[i].receiver =>
                            queue'[q] = queue[q] /\ rxAlive'[q] = rxAlive[q]]_vars

\* C13 witness: a Receiver has been deregistered by its drop while another
\* subscriber is still registered with a value pending, and an absent id
\* exists on which removal can be tried.
C13_Witness ==
    \E i, j \in Ids :
        /\ i # j
        /\ rcv[i].st = "removed"
        /\ i \notin Keys(rcv[i].senders)
        /\ rcv[j].st = "live"
        /\ j \in Keys(rcv[j].senders)
        /\ queue[rcv[j].receiver] # << >>

\* C14. Cloning a Sender registers nothing: the step changes no registry, no
\* queue, no consumer end, no Receiver and no lock.  A send locks the
\* registry of the channel its handle belongs to, whether the handle is the
\* Sender new() returned or a clone, takes that registry's keys as its
\* subscribers, pushes its value to one of them at each iteration and
\* returns Ok once it has visited them all.
C14_SenderCloneSharesRegistry ==
    /\ [][\A c \in Chans : SenderClone(c) =>
            /\ registry' = registry
            /\ queue' = queue
            /\ rxAlive' = rxAlive
            /\ rcv' = rcv
            /\ lock' = lock]_vars
    /\ [][\A v \in Msgs :
            /\ SendLock(v) =>
                 /\ sends'[v].chan = sends[v].via
                 /\ sends'[v].snap = Keys(sends[v].via)
            /\ SendPush(v) =>
                 \E k \in Keys(sends[v].via) \ sends[v].visited :
                     /\ sends'[v].visited = sends[v].visited \cup {k}
                     /\ queue'[registry[sends[v].via][k]] =
                            Append(queue[registry[sends[v].via][k]], v)
            /\ SendReturn(v) => sends[v].visited = Keys(sends[v].via)]_vars

\* C14 witness: while the Sender new() returned still exists, a send made
\* through a clone of it holds the lock and has pushed its value to both
\* subscribers of the channel.
C14_Witness ==
    \E v \in Msgs : \E i, j \in Ids :
        /\ sends[v].cl /\ sends[v].pc = "locked"
        /\ original[sends[v].via]
        /\ i # j
        /\ sends[v].visited = {i, j}
        /\ sends[v].visited = Keys(sends[v].via)
        /\ v \in Elems(queue[rcv[i].receiver])
        /\ v \in Elems(queue[rcv[j].receiver])

\* C15. No operation of the channel panics: no send, clone or drop has
\* panicked on lock().unwrap(), and recv and try_recv take no lock.
C15_NoPanic == panics = {}

\* C16. send never fails: no send has returned Err, a send that has
\* returned has returned Ok, and no registry holds an entry whose consumer
\* end has been destroyed.
C16_SendNeverFails ==
    /\ \A v \in Msgs :
          /\ sends[v].res # "Err"
          /\ sends[v].pc = "done" => sends[v].res = "Ok"
    /\ \A c \in Chans : \A k \in Keys(c) : rxAlive[registry[c][k]]

\* C16 witness: a send has returned Ok after pushing to a Receiver that has
\* since been dropped, while the drop of a second Receiver it pushed to is
\* still waiting for the lock.
C16_Witness ==
    \E v \in Msgs : \E i, j \in Ids :
        /\ sends[v].pc = "done" /\ sends[v].res = "Ok"
        /\ {i, j} \subseteq sends[v].visited
        /\ rcv[i].st = "dropped"
        /\ rcv[j].st = "dropping"

\* C17. Agreement on order across subscribers: any two values that two
\* Receivers of one channel both hold (obtained or pending) are held by
\* both in the same relative order.
C17_OrderAgreement ==
    \A i, j \in Ids :
        (i < j /\ Live(i) /\ Live(j) /\ rcv[i].senders = rcv[j].senders) =>
            LET s == Stream(i)
                t == Stream(j)
            IN  \A a, b \in Elems(s) \cap Elems(t) :
                    a < b => (Pos(s, a) < Pos(s, b) <=> Pos(t, a) < Pos(t, b))

\* C17 witness: with two Sender handles on the channel, two Receivers hold
\* the values of two sends that took the lock in the reverse order of their
\* calls, one having obtained both and the other with both still pending.
C17_Witness ==
    \E i, j \in Ids :
        /\ i # j
        /\ Live(i) /\ Live(j)
        /\ senderCount[rcv[i].senders] = 2
        /\ got[i] = <<2, 1>>
        /\ queue[rcv[j].receiver] = <<2, 1>>

\* C18. A subscriber sees only values sent after it subscribed: the queue
\* made by clone is empty when it is made and when its Receiver is
\* registered and returned, and making it leaves the queue and the history
\* of the original as they were; at the registration no send that has
\* already returned has the clone in its snapshot, a snapshot never changes,
\* and a Receiver holds only values of sends whose snapshot it is in.
C18_OnlyLaterValues ==
    /\ [](\A n \in Ids : \A v \in Elems(Stream(n)) : n \in sends[v].snap)
    /\ [][\A i \in Ids :
            /\ CloneCall(i) =>
                 /\ queue'[NewV4] = << >>
                 /\ got'[NewV4] = << >>
                 /\ queue'[rcv[i].receiver] = queue[rcv[i].receiver]
                 /\ got'[i] = got[i]
            /\ CloneRegister(i) =>
                 /\ queue[rcv[i].receiver] = << >>
                 /\ queue' = queue
                 /\ got' = got
                 /\ \A v \in Msgs : sends[v].pc = "done" => i \notin sends[v].snap]_vars
    /\ [][\A v \in Msgs :
            sends[v].pc \in {"locked", "done"} => sends'[v].snap = sends[v].snap]_vars

\* C18 witness: a clone registered after a send had returned holds the
\* value of a later send and not the earlier one, which its original has
\* still pending.
C18_Witness ==
    \E n, p \in Ids : \E v, w \in Msgs :
        /\ rcv[n].st = "live" /\ rcv[n].parent = p
        /\ rcv[p].st = "live"
        /\ sends[v].pc = "done" /\ n \notin sends[v].snap
        /\ v \in Elems(queue[rcv[p].receiver])
        /\ sends[w].pc = "done" /\ n \in sends[w].snap
        /\ Stream(n) = <<w>>

\* C19. send with no subscribers: a send that finds the registry empty when
\* it takes the lock has nothing to push and can only return; it visits no
\* entry, no Receiver ever holds its value, the registry is empty as long
\* as it holds the lock, it returns Ok(()), and no step of a send changes
\* a registry.
C19_SendToNobody ==
    /\ [](\A v \in Msgs :
            (sends[v].pc \in {"locked", "done"} /\ sends[v].snap = {}) =>
                /\ sends[v].visited = {}
                /\ \A i \in Ids : Count(Stream(i), v) = 0
                /\ sends[v].pc = "locked" =>
                     /\ Keys(sends[v].chan) = {}
                     /\ ENABLED SendReturn(v)
                     /\ ~ENABLED SendPush(v)
                /\ sends[v].pc = "done" => sends[v].res = "Ok")
    /\ [][\A v \in Msgs :
            /\ (SendLock(v) /\ Keys(sends[v].chan) = {}) => sends'[v].snap = {}
            /\ (SendLock(v) \/ SendPush(v) \/ SendReturn(v)) =>
                 registry' = registry /\ (sends[v].snap = {} => queue' = queue)]_vars

\* C19 witness: every Receiver of the channel has been dropped, the
\* registry is empty, and a send called after that has returned Ok, an
\* earlier send having delivered its value to a subscriber.
C19_Witness ==
    \E v, w \in Msgs :
        /\ \A i \in Ids : rcv[i].st \in {"none", "dropped"}
        /\ \E i \in Ids : rcv[i].st = "dropped" /\ droppedAt[i] < v
        /\ Keys(1) = {}
        /\ sends[w].pc = "done" /\ sends[w].snap # {}
        /\ sends[v].pc = "done" /\ sends[v].res = "Ok" /\ sends[v].snap = {}

\* C20. Receiver lifecycle is one-way: the id of a Receiver whose drop has
\* deregistered it is in no registry; an entry disappears from a registry
\* only in the deregistering step of the drop of the Receiver with that id,
\* which finds its entry present and removes it; and an entry appears only
\* for an id that is being registered for the first time, so an id once
\* removed is never present again.
C20_OneWayLifecycle ==
    /\ [](\A k \in Ids : rcv[k].st \in {"removed", "dropped"} =>
            \A c \in Chans : k \notin Keys(c))
    /\ [][\A c \in Chans : \A k \in Ids :
            /\ (k \in Keys(c) /\ k \notin DOMAIN registry'[c]) =>
                 DropRemove(k) /\ rcv[k].senders = c
            /\ (DropRemove(k) /\ rcv[k].senders = c) =>
                 k \in Keys(c) /\ k \notin DOMAIN registry'[c]
            /\ (k \notin Keys(c) /\ k \in DOMAIN registry'[c]) =>
                 /\ rcv[k].st = "cloning"
                 /\ createdAt[k] = Never
                 /\ droppedAt[k] = Never]_vars

\* C20 witness: the drop of a Receiver has finished, its id is absent, and
\* a clone registered after that is present under another id.
C20_Witness ==
    \E k, n \in Ids :
        /\ rcv[k].st = "dropped"
        /\ k \notin Keys(rcv[k].senders)
        /\ rcv[n].st = "live"
        /\ n \in Keys(rcv[n].senders)
        /\ rcv[n].senders = rcv[k].senders
        /\ droppedAt[k] < createdAt[n]

====
